---- MODULE Spec2Model ----
(***************************************************************************)
(* The home view of the chat-analysis front end: the upload control, the   *)
(* handlers of its responses, the URL builders, the report download and    *)
(* the conditional parts of the template.  The repository holds two        *)
(* implementations of the same screen, src/frontend (Vue 2, called v2      *)
(* below) and src/frontend-v3 (Vue 3, called v3); impl selects which one   *)
(* a behaviour runs.                                                       *)
(*                                                                         *)
(* JavaScript values are tagged records: [t |-> "null"], [t |->            *)
(* "undefined"], [t |-> "string", v |-> "..."], [t |-> "boolean", v |->    *)
(* b] and [t |-> "object", ...properties].  Strings keep their characters, *)
(* so concatenation and endsWith are computed, not assumed.                *)
(***************************************************************************)
EXTENDS Integers, Sequences, FiniteSets, TLC

VARIABLES
    impl,              \* "v2" (src/frontend) or "v3" (src/frontend-v3)
    baseURL,           \* the configured backend base URL
    loading,           \* data: loading
    analysisResults,   \* data: analysisResults
    sentimentResults,  \* data: sentimentResults
    emojiCloudData,    \* data: emojiCloudData
    reportUrl,         \* data: reportUrl
    inflight,          \* ids of the upload requests issued and not yet answered
    episode,           \* log of accept/answer events since the view was last idle
    lastSuccess,       \* the last response handled with success true, or Null
    lastOp,            \* the handler that ran last
    lastArg,           \* its argument
    ret,               \* its return value
    message,           \* the notification it emitted, or NoMessage
    opened,            \* the browser tabs it opened (window.open targets)
    probes             \* the GET requests of testBackend issued and not yet settled

vars == <<impl, baseURL, loading, analysisResults, sentimentResults, emojiCloudData,
          reportUrl, inflight, episode, lastSuccess, lastOp, lastArg, ret, message, opened,
          probes>>

resultFields == <<analysisResults, sentimentResults, emojiCloudData, reportUrl>>

(***************************************************************************)
(* Bounds.                                                                 *)
(***************************************************************************)
\* uploads that may be accepted between two idle moments of the view
MaxUploads == 2

\* connectivity probes that may be awaiting their answer at the same time
MaxProbes == 1

(***************************************************************************)
(* JavaScript values.                                                      *)
(***************************************************************************)
Null == [t |-> "null"]

Undefined == [t |-> "undefined"]

Str(s) == [t |-> "string", v |-> s]

Bool(b) == [t |-> "boolean", v |-> b]

\* ToBoolean: null, undefined, '' and false are falsy; objects and other strings truthy
Truthy(x) ==
    CASE x.t = "null" -> FALSE
      [] x.t = "undefined" -> FALSE
      [] x.t = "string" -> x.v # ""
      [] x.t = "boolean" -> x.v
      [] OTHER -> TRUE

\* a || b
Or(a, b) == IF Truthy(a) THEN a ELSE b

\* ToString, as applied by string concatenation and template literals
ToStr(x) ==
    CASE x.t = "string" -> x.v
      [] x.t = "null" -> "null"
      [] x.t = "undefined" -> "undefined"
      [] x.t = "boolean" -> (IF x.v THEN "true" ELSE "false")
      [] OTHER -> "[object Object]"

\* String.prototype.endsWith
endsWith(s, suffix) ==
    /\ Len(s) >= Len(suffix)
    /\ SubSeq(s, Len(s) - Len(suffix) + 1, Len(s)) = suffix

(***************************************************************************)
(* Notifications (ElMessage / this.$message).                              *)
(***************************************************************************)
NoMessage == [kind |-> "none", text |-> ""]

MessageError(text) == [kind |-> "error", text |-> text]

MessageSuccess(text) == [kind |-> "success", text |-> text]

(***************************************************************************)
(* Configuration of the base URL.                                          *)
(***************************************************************************)
\* values of the environment variable VUE_APP_API_URL at build time
EnvValues == {Undefined, Str(""), Str("https://chat.example.org")}

\* v2: process.env.VUE_APP_API_URL || 'http://localhost:8082'
API_BASE_URL(env) == ToStr(Or(env, Str("http://localhost:8082")))

\* v3: axios.create({ baseURL: 'http://localhost:8082' })
apiClientBaseURL == "http://localhost:8082"

(***************************************************************************)
(* Inputs: the files a user may drop and the responses of the backend.     *)
(***************************************************************************)
RawFiles ==
    { [type |-> "text/csv", name |-> "chat.csv"],
      [type |-> "", name |-> "chat.csv"],
      [type |-> "text/csv", name |-> "export.txt"],
      [type |-> "text/plain", name |-> "notes.txt"],
      [type |-> "application/vnd.ms-excel", name |-> "CHAT.CSV"] }

\* the decimal digits naming an upload in the paths the backend generates for it
Digit(k) == ToString(k)

\* an emoji-cloud object {sender?, receiver?}; an absent property reads as undefined
EmojiObject(s, r) == [t |-> "object", sender |-> s, receiver |-> r]

\* the pairs <<emoji_clouds, emoji_symbol_cloud>> a response to upload k may carry
EmojiPairs(k) ==
    LET s == Str("static/emoji_sender_" \o Digit(k) \o ".html")
        r == Str("static/emoji_receiver_" \o Digit(k) \o ".html")
        y == Str("static/emoji_symbol_" \o Digit(k) \o ".html")
    IN  { <<Undefined, Undefined>>,
          <<Undefined, EmojiObject(y, Undefined)>>,
          <<EmojiObject(Undefined, Undefined), EmojiObject(y, Undefined)>>,
          <<EmojiObject(s, Undefined), Undefined>>,
          <<EmojiObject(Undefined, r), Undefined>>,
          <<EmojiObject(s, r), EmojiObject(y, Undefined)>> }

\* word_cloud.french: absent, empty, or the path of the French word cloud
FrenchValues(k) ==
    {Undefined, Str(""), Str("static/wordcloud_french_" \o Digit(k) \o ".html")}

\* report_url: null, absent, empty, or the path of the generated report
ReportUrlValues(k) ==
    {Null, Undefined, Str(""), Str("/api/reports/report_" \o Digit(k) \o ".pdf")}

\* the optional parts <<french, <<emoji_clouds, emoji_symbol_cloud>>, report_url>> of
\* a response that carries every one of them
FullVariant(k) ==
    <<Str("static/wordcloud_french_" \o Digit(k) \o ".html"),
      <<EmojiObject(Str("static/emoji_sender_" \o Digit(k) \o ".html"),
                    Str("static/emoji_receiver_" \o Digit(k) \o ".html")),
        EmojiObject(Str("static/emoji_symbol_" \o Digit(k) \o ".html"), Undefined)>>,
      Str("/api/reports/report_" \o Digit(k) \o ".pdf")>>

\* the optional parts of the responses considered: the full response, and the
\* responses that differ from it in one of the three parts
Variants(k) ==
    { v \in FrenchValues(k) \X EmojiPairs(k) \X ReportUrlValues(k) :
          Cardinality({i \in DOMAIN v : v[i] # FullVariant(k)[i]}) <= 1 }

\* response.data of the analysis of upload k
Data(k, french) ==
    [t |-> "object",
     time_analysis |-> [t |-> "object",
                        monthly_chart |-> Str("static/monthly_" \o Digit(k) \o ".png"),
                        hourly_chart |-> Str("static/hourly_" \o Digit(k) \o ".png")],
     calendar_heatmap |-> Str("static/heatmap_" \o Digit(k) \o ".png"),
     word_cloud |-> [t |-> "object",
                     both |-> Str("static/wordcloud_both_" \o Digit(k) \o ".html"),
                     sender |-> Str("static/wordcloud_sender_" \o Digit(k) \o ".html"),
                     receiver |-> Str("static/wordcloud_receiver_" \o Digit(k) \o ".html"),
                     french |-> french]]

\* response.sentiment of the analysis of upload k
Sentiment(k) ==
    [t |-> "object",
     radar_chart |-> Str("static/radar_" \o Digit(k) \o ".png"),
     summary |-> Str("summary of chat " \o Digit(k))]

\* the bodies POST /api/upload may answer upload k with when the analysis succeeded
SuccessResponses(k) ==
    { [success |-> TRUE, data |-> Data(k, v[1]), sentiment |-> Sentiment(k),
       emoji_clouds |-> v[2][1], emoji_symbol_cloud |-> v[2][2], report_url |-> v[3],
       error |-> Undefined]
        : v \in Variants(k) }

\* the bodies it answers with when the analysis failed (HTTP 2xx, success false)
FailureResponses ==
    { [success |-> FALSE, data |-> Undefined, sentiment |-> Undefined,
       emoji_clouds |-> Undefined, emoji_symbol_cloud |-> Undefined,
       report_url |-> Undefined, error |-> x]
        : x \in {Undefined, Null, Str(""), Str("Invalid CSV format")} }

\* the bodies that may answer each upload of an episode
Responses == [k \in 1..MaxUploads |-> SuccessResponses(k) \cup FailureResponses]

\* what el-upload hands to on-error (a non-2xx status, or no answer at all)
TransportErrors == { [t |-> "object", status |-> "500"] }

(***************************************************************************)
(* The log of the current episode: the uploads accepted and answered since *)
(* the last upload that was accepted while nothing was in flight.          *)
(***************************************************************************)
AcceptEvent(k) == [e |-> "accept", id |-> k, ok |-> FALSE]

AnswerEvent(k, ok) == [e |-> "answer", id |-> k, ok |-> ok]

Accepted(log) == Cardinality({i \in DOMAIN log : log[i].e = "accept"})

(***************************************************************************)
(* Handlers.                                                               *)
(***************************************************************************)
\* isCSV as it would be were the file name not consulted
isCSV_TypeOnly(rawFile) == rawFile.type = "text/csv"

\* const isCSV = rawFile.type === 'text/csv' || rawFile.name.endsWith('.csv')
isCSV(rawFile) == rawFile.type = "text/csv" \/ endsWith(rawFile.name, ".csv")

\* v3 beforeUpload as it would be were loading not set on acceptance
beforeUpload_v3_ForgetsLoading(rawFile) ==
    IF ~isCSV(rawFile)
    THEN /\ message' = MessageError("Only CSV files are allowed!")
         /\ ret' = Bool(FALSE)
         /\ UNCHANGED <<loading, resultFields>>
    ELSE /\ UNCHANGED loading
         /\ analysisResults' = Null
         /\ sentimentResults' = Null
         /\ emojiCloudData' = Null
         /\ reportUrl' = Null
         /\ message' = NoMessage
         /\ ret' = Bool(TRUE)

\* v3 beforeUpload
beforeUpload_v3(rawFile) ==
    IF ~isCSV(rawFile)
    THEN /\ message' = MessageError("Only CSV files are allowed!")
         /\ ret' = Bool(FALSE)
         /\ UNCHANGED <<loading, resultFields>>
    ELSE /\ loading' = TRUE
         /\ analysisResults' = Null
         /\ sentimentResults' = Null
         /\ emojiCloudData' = Null
         /\ reportUrl' = Null
         /\ message' = NoMessage
         /\ ret' = Bool(TRUE)

\* v2 beforeUpload: the result fields are not touched
beforeUpload_v2(file) ==
    IF ~isCSV(file)
    THEN /\ message' = MessageError("Only CSV files are allowed!")
         /\ ret' = Bool(FALSE)
         /\ UNCHANGED <<loading, resultFields>>
    ELSE /\ loading' = TRUE
         /\ UNCHANGED resultFields
         /\ message' = NoMessage
         /\ ret' = Bool(TRUE)

\* the failure text as it would be without the fallback
AnalysisFailedText_NoFallback(response) ==
    "Analysis failed: " \o ToStr(response.error)

\* 'Analysis failed: ' + (response.error || 'Unknown error')
AnalysisFailedText(response) ==
    "Analysis failed: " \o ToStr(Or(response.error, Str("Unknown error")))

\* the emoji data as it would be were emoji_symbol_cloud not consulted
EmojiCloudOf_NoFallback(response) == response.emoji_clouds

\* emojiCloudData = response.emoji_clouds || response.emoji_symbol_cloud
EmojiCloudOf(response) == Or(response.emoji_clouds, response.emoji_symbol_cloud)

\* handleUploadSuccess as it would be were a missing report_url to keep the old one
handleUploadSuccess_KeepsReport(response) ==
    /\ loading' = FALSE
    /\ IF response.success
       THEN /\ analysisResults' = response.data
            /\ sentimentResults' = response.sentiment
            /\ emojiCloudData' = Or(response.emoji_clouds, response.emoji_symbol_cloud)
            /\ reportUrl' = Or(response.report_url, reportUrl)
            /\ message' = MessageSuccess("Analysis completed!")
       ELSE /\ UNCHANGED resultFields
            /\ message' = MessageError("Analysis failed: "
                                           \o ToStr(Or(response.error, Str("Unknown error"))))

\* handleUploadSuccess as it would be were loading reset in the success branch only
handleUploadSuccess_LoadingOnSuccessOnly(response) ==
    IF response.success
    THEN /\ loading' = FALSE
         /\ analysisResults' = response.data
         /\ sentimentResults' = response.sentiment
         /\ emojiCloudData' = Or(response.emoji_clouds, response.emoji_symbol_cloud)
         /\ reportUrl' = response.report_url
         /\ message' = MessageSuccess("Analysis completed!")
    ELSE /\ UNCHANGED loading
         /\ UNCHANGED resultFields
         /\ message' = MessageError("Analysis failed: "
                                        \o ToStr(Or(response.error, Str("Unknown error"))))

\* handleUploadSuccess as it would be were a result on display never overwritten
handleUploadSuccess_KeepFirst(response) ==
    /\ loading' = FALSE
    /\ IF response.success
       THEN /\ IF Truthy(analysisResults)
               THEN UNCHANGED resultFields
               ELSE /\ analysisResults' = response.data
                    /\ sentimentResults' = response.sentiment
                    /\ emojiCloudData' = Or(response.emoji_clouds, response.emoji_symbol_cloud)
                    /\ reportUrl' = response.report_url
            /\ message' = MessageSuccess("Analysis completed!")
       ELSE /\ UNCHANGED resultFields
            /\ message' = MessageError("Analysis failed: "
                                           \o ToStr(Or(response.error, Str("Unknown error"))))

\* handleUploadSuccess (the same statements in v2 and v3)
handleUploadSuccess(response) ==
    /\ loading' = FALSE
    /\ IF response.success
       THEN /\ analysisResults' = response.data
            /\ sentimentResults' = response.sentiment
            /\ emojiCloudData' = EmojiCloudOf(response)
            /\ reportUrl' = response.report_url
            /\ message' = MessageSuccess("Analysis completed!")
       ELSE /\ UNCHANGED resultFields
            /\ message' = MessageError(AnalysisFailedText(response))

\* handleUploadError as it would be were it to clear the display
handleUploadError_ClearsResults(err) ==
    /\ loading' = FALSE
    /\ analysisResults' = Null
    /\ sentimentResults' = Null
    /\ emojiCloudData' = Null
    /\ reportUrl' = Null
    /\ message' = MessageError("Upload failed, please try again!")

\* handleUploadError as it would be were loading not reset
handleUploadError_KeepsLoading(err) ==
    /\ UNCHANGED loading
    /\ UNCHANGED resultFields
    /\ message' = MessageError("Upload failed, please try again!")

\* handleUploadError (the same statements in v2 and v3)
handleUploadError(err) ==
    /\ loading' = FALSE
    /\ UNCHANGED resultFields
    /\ message' = MessageError("Upload failed, please try again!")

\* getImageUrl
getImageUrl(path) ==
    IF ~Truthy(path) THEN "" ELSE baseURL \o "/" \o ToStr(path)

\* getWordCloudUrl as it would be without the separator
getWordCloudUrl_NoSlash(path) ==
    IF ~Truthy(path) THEN "" ELSE baseURL \o ToStr(path)

\* getWordCloudUrl
getWordCloudUrl(path) ==
    IF ~Truthy(path) THEN "" ELSE baseURL \o "/" \o ToStr(path)

\* the target as it would be with a separator inserted
ReportTarget_WithSlash == baseURL \o "/" \o ToStr(reportUrl)

\* the target of window.open in downloadReport
ReportTarget == baseURL \o ToStr(reportUrl)

\* downloadReport
downloadReport ==
    IF Truthy(reportUrl)
    THEN /\ opened' = <<ReportTarget>>
         /\ message' = NoMessage
    ELSE /\ opened' = <<>>
         /\ message' = MessageError("Report not available")

(***************************************************************************)
(* The connectivity probe: testBackend of the v3 home view and of the v2   *)
(* App shell (testBackendConnection of services/api.ts is the same         *)
(* function over a client whose base URL already ends in /api).            *)
(***************************************************************************)
\* o?.f
OptGet(o, f) == IF o.t \in {"null", "undefined"} THEN Undefined ELSE o[f]

\* apiClient.get('/api/test'): the request the probe issues
TestRequest == [method |-> "GET", url |-> baseURL \o "/api/test"]

\* how the awaited GET may settle: fulfilled with the body of /api/test, rejected
\* with a status error that carries a body, or rejected without any response
TestOutcomes ==
    { [settled |-> "fulfilled",
       value |-> [t |-> "object",
                  data |-> [t |-> "object", message |-> Str("Backend is running")]]],
      [settled |-> "rejected",
       value |-> [t |-> "object",
                  response |-> [t |-> "object",
                                data |-> [t |-> "object", error |-> Str("Internal error")]],
                  message |-> Str("Request failed with status code 500")]],
      [settled |-> "rejected",
       value |-> [t |-> "object", response |-> Undefined, message |-> Str("Network Error")]] }

\* error.response?.data?.error || error.message
ConnectionErrorMsg(error) ==
    Or(OptGet(OptGet(error.response, "data"), "error"), error.message)

\* testBackend up to the await: nothing but the request
testBackend_await ==
    /\ message' = NoMessage
    /\ UNCHANGED <<loading, resultFields>>

\* testBackend after the await as it would be were it to end the loading phase
testBackend_resume_ResetsLoading(outcome) ==
    /\ message' = IF outcome.settled = "fulfilled"
                  THEN MessageSuccess("Successfully connected to backend: "
                                          \o ToStr(outcome.value.data.message))
                  ELSE MessageError("Connection failed: "
                                        \o ToStr(ConnectionErrorMsg(outcome.value)))
    /\ loading' = FALSE
    /\ UNCHANGED resultFields

\* testBackend after the await: the try branch when the GET was fulfilled, the
\* catch branch when it was rejected
testBackend_resume(outcome) ==
    /\ IF outcome.settled = "fulfilled"
       THEN message' = MessageSuccess("Successfully connected to backend: "
                                          \o ToStr(outcome.value.data.message))
       ELSE message' = MessageError("Connection failed: "
                                        \o ToStr(ConnectionErrorMsg(outcome.value)))
    /\ UNCHANGED <<loading, resultFields>>

(***************************************************************************)
(* The template: what is rendered from the state.                          *)
(***************************************************************************)
\* <el-row v-if="loading">
LoadingShown == loading

\* <div v-if="analysisResults" class="analysis-results">
ResultsShown == Truthy(analysisResults)

\* the French pane as it would be without its v-if
FrenchTabShown_Always == Truthy(analysisResults)

\* <el-tab-pane label="French" v-if="analysisResults.word_cloud.french">
FrenchTabShown == ResultsShown /\ Truthy(analysisResults.word_cloud.french)

\* the panes of <el-tabs>: label |-> src of the pane's iframe
WordCloudTabs ==
    IF ~ResultsShown THEN <<>>
    ELSE LET wc == analysisResults.word_cloud
             field == [l \in {"Both", "Mine", "Other", "French"} |->
                          CASE l = "Both" -> wc.both
                            [] l = "Mine" -> wc.sender
                            [] l = "Other" -> wc.receiver
                            [] l = "French" -> wc.french]
         IN  [l \in {"Both", "Mine", "Other"} \cup (IF FrenchTabShown THEN {"French"} ELSE {})
                 |-> getWordCloudUrl(field[l])]

\* <el-row v-if="emojiCloudData && (emojiCloudData.sender || emojiCloudData.receiver)">
EmojiSectionShown ==
    /\ ResultsShown
    /\ Truthy(emojiCloudData)
    /\ (Truthy(emojiCloudData.sender) \/ Truthy(emojiCloudData.receiver))

\* the columns of the emoji section: side |-> src of the side's iframe
EmojiFrames ==
    IF ~EmojiSectionShown THEN <<>>
    ELSE [s \in {x \in {"sender", "receiver"} : Truthy(emojiCloudData[x])}
             |-> getWordCloudUrl(emojiCloudData[s])]

\* the <img> elements of the results panel: name |-> src
Images ==
    IF ~ResultsShown THEN <<>>
    ELSE [n \in {"monthly", "hourly", "heatmap"} |->
             CASE n = "monthly" -> getImageUrl(analysisResults.time_analysis.monthly_chart)
               [] n = "hourly" -> getImageUrl(analysisResults.time_analysis.hourly_chart)
               [] n = "heatmap" -> getImageUrl(analysisResults.calendar_heatmap)]

(***************************************************************************)
(* Initial state and actions.                                              *)
(***************************************************************************)
Init ==
    /\ impl \in {"v2", "v3"}
    /\ baseURL \in IF impl = "v3" THEN {apiClientBaseURL}
                   ELSE {API_BASE_URL(env) : env \in EnvValues}
    /\ loading = FALSE
    /\ analysisResults = Null
    /\ sentimentResults = Null
    /\ emojiCloudData = Null
    /\ reportUrl = Null
    /\ inflight = {}
    /\ episode = <<>>
    /\ lastSuccess = Null
    /\ lastOp = "created"
    /\ lastArg = Undefined
    /\ ret = Undefined
    /\ message = NoMessage
    /\ opened = <<>>
    /\ probes = <<>>

\* the id el-upload's next request gets in the log
NextId == IF inflight = {} THEN 1 ELSE Accepted(episode) + 1

\* the user drops rawFile on el-upload: before-upload runs, and the request is
\* issued exactly when it returned true
Upload(rawFile) ==
    /\ isCSV(rawFile) => (inflight = {} \/ Accepted(episode) < MaxUploads)
    /\ IF impl = "v3" THEN beforeUpload_v3(rawFile) ELSE beforeUpload_v2(rawFile)
    /\ IF ret'.v
       THEN /\ inflight' = inflight \cup {NextId}
            /\ episode' = IF inflight = {} THEN <<AcceptEvent(1)>>
                          ELSE Append(episode, AcceptEvent(NextId))
       ELSE UNCHANGED <<inflight, episode>>
    /\ lastOp' = "beforeUpload"
    /\ lastArg' = rawFile
    /\ opened' = <<>>
    /\ UNCHANGED <<impl, baseURL, lastSuccess, probes>>

\* the request of upload k is answered with a 2xx body: on-success runs
UploadAnswered(k, response) ==
    /\ k \in inflight
    /\ handleUploadSuccess(response)
    /\ inflight' = inflight \ {k}
    /\ episode' = Append(episode, AnswerEvent(k, response.success))
    /\ lastSuccess' = IF response.success THEN response ELSE lastSuccess
    /\ lastOp' = "handleUploadSuccess"
    /\ lastArg' = response
    /\ ret' = Undefined
    /\ opened' = <<>>
    /\ UNCHANGED <<impl, baseURL, probes>>

\* the request of upload k fails in transport: on-error runs
UploadFailed(k, err) ==
    /\ k \in inflight
    /\ handleUploadError(err)
    /\ inflight' = inflight \ {k}
    /\ episode' = Append(episode, AnswerEvent(k, FALSE))
    /\ lastOp' = "handleUploadError"
    /\ lastArg' = err
    /\ ret' = Undefined
    /\ opened' = <<>>
    /\ UNCHANGED <<impl, baseURL, lastSuccess, probes>>

\* the user clicks "Download Full Report", a button of the results panel
ClickDownload ==
    /\ ResultsShown
    /\ downloadReport
    /\ lastOp' = "downloadReport"
    /\ lastArg' = Undefined
    /\ ret' = Undefined
    /\ UNCHANGED <<impl, baseURL, loading, resultFields, inflight, episode, lastSuccess,
                   probes>>

\* the user clicks "Test Backend Connection": testBackend runs up to its await
ClickTest ==
    /\ Len(probes) < MaxProbes
    /\ probes' = Append(probes, TestRequest)
    /\ testBackend_await
    /\ lastOp' = "testBackend"
    /\ lastArg' = Undefined
    /\ ret' = Undefined
    /\ opened' = <<>>
    /\ UNCHANGED <<impl, baseURL, inflight, episode, lastSuccess>>

\* the GET of a probe is settled: testBackend resumes after its await
TestSettled(i, outcome) ==
    /\ i \in DOMAIN probes
    /\ probes' = [j \in 1..(Len(probes) - 1) |-> IF j < i THEN probes[j] ELSE probes[j + 1]]
    /\ testBackend_resume(outcome)
    /\ lastOp' = "testBackendSettled"
    /\ lastArg' = outcome
    /\ ret' = Undefined
    /\ opened' = <<>>
    /\ UNCHANGED <<impl, baseURL, inflight, episode, lastSuccess>>

DropFile == \E rawFile \in RawFiles : Upload(rawFile)

Answer == \E k \in inflight : \E response \in Responses[k] : UploadAnswered(k, response)

Fail == \E k \in inflight : \E err \in TransportErrors : UploadFailed(k, err)

Probe == \E i \in DOMAIN probes : \E outcome \in TestOutcomes : TestSettled(i, outcome)

\* the steps of the upload flow
UploadFlow == DropFile \/ Answer \/ Fail \/ ClickDownload

Next == UploadFlow \/ ClickTest \/ Probe

Spec == Init /\ [][Next]_vars

\* the upload flow alone, in which every issued upload request is eventually
\* answered, one way or the other; the probe steps left out here change neither
\* loading nor the uploads in flight
FairSpec == Init /\ [][UploadFlow]_vars /\ WF_vars(Answer \/ Fail)

(***************************************************************************)
(* Properties.                                                             *)
(***************************************************************************)
AllResultsNull ==
    /\ analysisResults = Null
    /\ sentimentResults = Null
    /\ emojiCloudData = Null
    /\ reportUrl = Null

\* n is some text followed by ".csv"
HasCsvSuffix(n) == \E k \in 0..Len(n) : n = SubSeq(n, 1, k) \o ".csv"

Answered == {"handleUploadSuccess", "handleUploadError"}

\* C1: beforeUpload on a file whose type is not 'text/csv' and whose name does not
\* end with '.csv' returns false, issues no request, emits the error 'Only CSV files
\* are allowed!' and leaves loading and the four result fields as they were; a file
\* of type 'text/csv' or with a name ending in '.csv' is not rejected.
C1_NonCsvRejected ==
    [][ lastOp' = "beforeUpload" =>
          IF lastArg'.type # "text/csv" /\ ~HasCsvSuffix(lastArg'.name)
          THEN /\ ret' = Bool(FALSE)
               /\ message' = MessageError("Only CSV files are allowed!")
               /\ inflight' = inflight
               /\ loading' = loading
               /\ resultFields' = resultFields
          ELSE /\ ret' = Bool(TRUE)
               /\ message'.kind # "error" ]_vars

\* a non-CSV file was rejected while a result was on display and an upload in flight
C1_Witness ==
    /\ lastOp = "beforeUpload"
    /\ lastArg.name = "CHAT.CSV"
    /\ ret = Bool(FALSE)
    /\ ResultsShown
    /\ loading
    /\ inflight # {}

\* C2: loading is true right after beforeUpload accepted a file, and false right
\* after a response was handled, by handleUploadSuccess (success true or false) or
\* by handleUploadError.
C2_LoadingFollowsUpload ==
    /\ (lastOp = "beforeUpload" /\ ret = Bool(TRUE) => loading)
    /\ (lastOp \in Answered => ~loading)

\* a transport error was handled while another upload was still in flight
C2_Witness ==
    /\ lastOp = "handleUploadError"
    /\ inflight # {}
    /\ ~loading

\* C3: right after beforeUpload accepted a file, the four result fields are null,
\* in both implementations.
C3_AcceptClearsResults ==
    lastOp = "beforeUpload" /\ ret = Bool(TRUE) => AllResultsNull

\* two uploads were accepted before either was answered, and both have been answered
TwoOverlappedBothHandled ==
    /\ Len(episode) = 4
    /\ episode[1].e = "accept"
    /\ episode[2].e = "accept"
    /\ episode[3].e = "answer"
    /\ episode[4].e = "answer"

\* the result fields are the ones handleUploadSuccess takes from the last successful
\* response, and that response is the answer to upload k
ShowsResultsOf(k) ==
    /\ lastSuccess # Null
    /\ lastSuccess.sentiment = Sentiment(k)
    /\ analysisResults = lastSuccess.data
    /\ sentimentResults = lastSuccess.sentiment
    /\ emojiCloudData = (IF Truthy(lastSuccess.emoji_clouds) THEN lastSuccess.emoji_clouds
                         ELSE lastSuccess.emoji_symbol_cloud)
    /\ reportUrl = lastSuccess.report_url

\* C4 as claimed: once two overlapping uploads have both been answered, what is on
\* display was written by the response that resolved last.
C4_LastResolvedWroteDisplay ==
    TwoOverlappedBothHandled =>
        /\ ~loading
        /\ episode[4].ok => ShowsResultsOf(episode[4].id)
        /\ ResultsShown => episode[4].ok

\* C4, amended: once two overlapping uploads have both been answered, in either
\* order, loading is false; the result fields are those of the response that
\* resolved last if it had success true, and those of the response that resolved
\* first if the last one failed and the first one had success true.
C4_LastSuccessWins ==
    TwoOverlappedBothHandled =>
        /\ inflight = {}
        /\ ~loading
        /\ {episode[3].id, episode[4].id} = {1, 2}
        /\ episode[4].ok => ShowsResultsOf(episode[4].id)
        /\ ~episode[4].ok /\ episode[3].ok => ShowsResultsOf(episode[3].id)

\* the upload started first resolved last, after the other had succeeded, and failed
C4_Witness ==
    /\ TwoOverlappedBothHandled
    /\ episode[3].id = 2
    /\ episode[3].ok
    /\ episode[4].id = 1
    /\ ~episode[4].ok
    /\ ShowsResultsOf(2)

\* C5: whenever no upload is in flight, loading is false and a file can be accepted,
\* and if every request is eventually answered, loading never stays true for ever.
C5_ReturnsToIdle ==
    /\ [](inflight = {} => ~loading /\ ENABLED (\E f \in RawFiles : isCSV(f) /\ Upload(f)))
    /\ (loading ~> ~loading)

\* the view is idle again after an application-level failure
C5_Witness ==
    /\ lastOp = "handleUploadSuccess"
    /\ ~lastArg.success
    /\ inflight = {}
    /\ ~loading

\* C6: after a response with success false, the notification is an error whose text
\* is 'Analysis failed: Unknown error' when the error field is absent, null or
\* empty, and 'Analysis failed: ' followed by the error text otherwise.
C6_FailureMessage ==
    lastOp = "handleUploadSuccess" /\ ~lastArg.success =>
        /\ message.kind = "error"
        /\ message.text = IF lastArg.error \in {Undefined, Null, Str("")}
                          THEN "Analysis failed: Unknown error"
                          ELSE "Analysis failed: " \o lastArg.error.v

\* a failure without an error field was handled
C6_Witness ==
    /\ lastOp = "handleUploadSuccess"
    /\ ~lastArg.success
    /\ lastArg.error = Undefined
    /\ message.text = "Analysis failed: Unknown error"

\* C7 as claimed: downloadReport with reportUrl null (or absent) emits 'Report not
\* available' and opens nothing, and with any other value opens base URL + reportUrl.
C7_NonNullOpens ==
    lastOp = "downloadReport" =>
        IF reportUrl \in {Null, Undefined}
        THEN message = MessageError("Report not available") /\ opened = <<>>
        ELSE message = NoMessage /\ opened = <<baseURL \o ToStr(reportUrl)>>

\* C7, amended: downloadReport with a falsy reportUrl (null, undefined or the empty
\* string) emits 'Report not available' and opens nothing; with a non-empty string
\* it opens one tab at base URL + reportUrl, nothing in between, and emits nothing.
C7_TruthyOpens ==
    lastOp = "downloadReport" =>
        IF reportUrl \in {Null, Undefined, Str("")}
        THEN message = MessageError("Report not available") /\ opened = <<>>
        ELSE message = NoMessage /\ opened = <<baseURL \o reportUrl.v>>

\* a report was opened from a configured base URL
C7_Witness ==
    /\ lastOp = "downloadReport"
    /\ baseURL = "https://chat.example.org"
    /\ opened = <<"https://chat.example.org/api/reports/report_1.pdf">>

\* the paths the URL builders are tried on
PathInputs ==
    {Null, Undefined, Str(""), Str("a"), Str("/a"), Str("static/monthly_1.png"),
     Str("static/wordcloud_both_2.html")}

\* C8: getImageUrl and getWordCloudUrl return base URL + '/' + path for a non-empty
\* path and '' for null, undefined and '', and agree on every path; the images of
\* the results panel are at the URLs so built.
C8_UrlBuilders ==
    /\ \A p \in PathInputs :
          /\ getImageUrl(p) = getWordCloudUrl(p)
          /\ getImageUrl(p) = IF p.t = "string" /\ Len(p.v) > 0
                              THEN baseURL \o "/" \o p.v ELSE ""
    /\ ResultsShown =>
          /\ Images["heatmap"] = baseURL \o "/" \o lastSuccess.data.calendar_heatmap.v
          /\ WordCloudTabs["Both"] = baseURL \o "/" \o lastSuccess.data.word_cloud.both.v

\* a result is rendered from a configured base URL
C8_Witness ==
    /\ ResultsShown
    /\ Images["heatmap"] = "https://chat.example.org/static/heatmap_1.png"
    /\ WordCloudTabs["Both"] = "https://chat.example.org/static/wordcloud_both_1.html"

\* the sides of an emoji object that are present and truthy
PresentSides(e) ==
    IF Truthy(e) THEN {s \in {"sender", "receiver"} : Truthy(e[s])} ELSE {}

\* C9 as claimed: the emoji section shows exactly the sides of emoji_clouds of the
\* last successful response, and is absent when it has none.
C9_EmojiCloudsSides ==
    lastSuccess # Null =>
        EmojiFrames = [s \in PresentSides(lastSuccess.emoji_clouds) |->
                          baseURL \o "/" \o lastSuccess.emoji_clouds[s].v]

\* C9, amended: while the results panel is shown, the emoji section shows exactly
\* the truthy sides of the emoji data of the displayed response, which is its
\* emoji_clouds or, when that is absent or falsy, its emoji_symbol_cloud, each at
\* base URL + '/' + path, and the section is absent when there is no such side;
\* while the results panel is not shown, the section is absent.
C9_EmojiSection ==
    IF ~ResultsShown THEN EmojiFrames = <<>>
    ELSE LET e == IF Truthy(lastSuccess.emoji_clouds) THEN lastSuccess.emoji_clouds
                  ELSE lastSuccess.emoji_symbol_cloud
         IN  EmojiFrames = [s \in PresentSides(e) |-> baseURL \o "/" \o e[s].v]

\* only the receiver's emoji cloud is shown
C9_Witness ==
    /\ ResultsShown
    /\ DOMAIN EmojiFrames = {"receiver"}
    /\ lastSuccess.emoji_clouds.sender = Undefined

\* C10: while the results panel is shown, the tabs are Both, Mine and Other, and
\* French exactly when word_cloud.french of the displayed response is truthy.
C10_FrenchTab ==
    ResultsShown =>
        DOMAIN WordCloudTabs =
            {"Both", "Mine", "Other"}
                \cup (IF lastSuccess.data.word_cloud.french \in {Undefined, Null, Str("")}
                      THEN {} ELSE {"French"})

\* a result without a French word cloud is on display
C10_Witness ==
    /\ ResultsShown
    /\ lastSuccess.data.word_cloud.french = Undefined
    /\ DOMAIN WordCloudTabs = {"Both", "Mine", "Other"}

\* C11: a click on the probe issues one GET to base URL + '/api/test' and emits
\* nothing yet; when the GET settles, one notification is emitted, a success if it
\* was fulfilled and an error if it was rejected; neither step changes loading, the
\* four result fields or the uploads in flight.
C11_ProbeOutsideUploadFlow ==
    [][ /\ lastOp' = "testBackend" =>
              /\ probes' = Append(probes, [method |-> "GET", url |-> baseURL \o "/api/test"])
              /\ message' = NoMessage
        /\ lastOp' = "testBackendSettled" =>
              /\ Len(probes') = Len(probes) - 1
              /\ message'.kind = IF lastArg'.settled = "fulfilled" THEN "success" ELSE "error"
              /\ message'.text # ""
        /\ lastOp' \in {"testBackend", "testBackendSettled"} =>
              /\ loading' = loading
              /\ resultFields' = resultFields
              /\ inflight' = inflight
              /\ episode' = episode ]_vars

\* a probe was answered while an upload was in flight and an earlier result on display
C11_Witness ==
    /\ lastOp = "testBackendSettled"
    /\ lastArg.settled = "fulfilled"
    /\ message = MessageSuccess("Successfully connected to backend: Backend is running")
    /\ loading
    /\ inflight # {}
    /\ ResultsShown

\* C12: the loading indicator and the results panel are never shown together,
\* loading turns true only in a beforeUpload that accepts a file, and the results
\* panel appears only in a handleUploadSuccess of a response with success true.
C12_PhaseMachine ==
    [][ /\ ~(LoadingShown' /\ ResultsShown')
        /\ ~loading /\ loading' => lastOp' = "beforeUpload" /\ ret' = Bool(TRUE)
        /\ ~ResultsShown /\ ResultsShown' =>
              lastOp' = "handleUploadSuccess" /\ lastArg'.success ]_vars

\* C13: the four result fields are all null, or all four are the ones
\* handleUploadSuccess takes from one successful response, the last one handled.
C13_ResultsFromOneResponse ==
    \/ AllResultsNull
    \/ \E k \in 1..MaxUploads : lastSuccess \in Responses[k] /\ ShowsResultsOf(k)

\* two overlapping uploads both succeeded, and the one resolved last has no report
C13_Witness ==
    /\ TwoOverlappedBothHandled
    /\ episode[3].ok
    /\ episode[4].ok
    /\ ResultsShown
    /\ reportUrl = Null

\* a response that reports a failure: success false, or a transport error
FailureHandled ==
    \/ lastOp = "handleUploadError"
    \/ lastOp = "handleUploadSuccess" /\ ~lastArg.success

\* C14: handling a failed upload, by handleUploadSuccess with success false or by
\* handleUploadError, sets loading to false, emits an error notification and leaves
\* the four result fields as they were.
C14_FailureKeepsResults ==
    [][ FailureHandled' =>
          /\ loading' = FALSE
          /\ message'.kind = "error"
          /\ resultFields' = resultFields ]_vars

\* a transport error was handled while a result was on display
C14_Witness ==
    /\ lastOp = "handleUploadError"
    /\ ResultsShown
    /\ reportUrl # Null
    /\ ~loading

\* C15 as claimed: loading is true exactly while an accepted upload is unanswered.
C15_LoadingIffOutstanding == loading <=> inflight # {}

\* C15, amended: loading is true exactly while the last event of the upload flow is
\* the acceptance of a file, so it is true only while an upload is unanswered and
\* false whenever none is; when uploads overlap it turns false as soon as one of
\* them is answered, although another is still outstanding.
C15_LoadingUntilFirstAnswer ==
    /\ loading <=> (episode # <<>> /\ episode[Len(episode)].e = "accept")
    /\ loading => inflight # {}

\* an upload is still unanswered and the loading indicator is off
C15_Witness ==
    /\ inflight # {}
    /\ ~loading
    /\ lastOp \in Answered
====
